---- MODULE Spec2Model ----
(***************************************************************************)
(* ReviewHunter (src/app.py): review aggregation, lead scoring, pain       *)
(* flags, score category and the per-business report loop.                 *)
(*                                                                         *)
(* Encodings                                                               *)
(*   - an optional value is a tuple: None == <<>>, Some(v) == <<v>>        *)
(*   - a business rating is held in tenths (3.5 is 35)                     *)
(*   - a branch factor is held in hundredths (1.25 is 125)                 *)
(*   - unanswered_pct is the exact fraction [num, den], den > 0            *)
(*   - a point in time is a number of hours; a timedelta's .days is the    *)
(*     floor of the hours divided by 24                                    *)
(***************************************************************************)
EXTENDS Integers, Sequences, FiniteSets, TLC

VARIABLES pc, businesses, branche, idx, reviews, results, args, ret

vars == <<pc, businesses, branche, idx, reviews, results, args, ret>>

loopVars == <<pc, businesses, branche, idx, reviews, results>>

None == <<>>

Some(v) == <<v>>

\* Python truthiness of an optional number: None and 0 are both falsy.
Truthy(x) == x # None /\ x[1] # 0

(***************************************************************************)
(* Bounds of the model                                                     *)
(***************************************************************************)
MaxReviews == 2

MaxBusinesses == 2

MaxScore == 120

(***************************************************************************)
(* Fractions (unanswered_pct)                                              *)
(***************************************************************************)
Frac(n, d) == [num |-> n, den |-> d]

FracEq(p, k) == p.num = k * p.den

FracLe(p, k) == p.num <= k * p.den

FracGt(p, k) == p.num > k * p.den

FracLeq(p, q) == p.num * q.den <= q.num * p.den

(***************************************************************************)
(* BRANCH_FACTORS, in hundredths                                           *)
(***************************************************************************)
BRANCH_FACTORS ==
    [b \in {"Zahnarzt", "Arzt", "Anwalt", "Steuerberater", "Restaurant",
            "Hotel", "Cafe", "Fitness", "Physiotherapie", "Friseur",
            "Kosmetik", "Handwerker", "Autohaus", "Imbiss", "Kiosk"} |->
        CASE b \in {"Zahnarzt", "Arzt"} -> 130
          [] b \in {"Anwalt", "Steuerberater"} -> 125
          [] b \in {"Restaurant", "Hotel", "Cafe"} -> 110
          [] b \in {"Fitness", "Physiotherapie", "Friseur", "Kosmetik"} -> 100
          [] b = "Handwerker" -> 90
          [] b = "Autohaus" -> 95
          [] b \in {"Imbiss", "Kiosk"} -> 80]

\* BRANCH_FACTORS.get(branche, 1.0)
BranchFactor(b) ==
    IF b \in DOMAIN BRANCH_FACTORS THEN BRANCH_FACTORS[b] ELSE 100

(***************************************************************************)
(* calculate_lead_score                                                    *)
(***************************************************************************)
\* Faktor 1: Antwortverhalten
ResponseFactorSwapped(pct) ==
    IF FracEq(pct, 0) THEN 0
    ELSE IF FracLe(pct, 25) THEN 10
    ELSE IF FracLe(pct, 50) THEN 20
    ELSE IF FracLe(pct, 75) THEN 35
    ELSE 28

ResponseFactor(pct) ==
    IF FracEq(pct, 0) THEN 0
    ELSE IF FracLe(pct, 25) THEN 10
    ELSE IF FracLe(pct, 50) THEN 20
    ELSE IF FracLe(pct, 75) THEN 28
    ELSE 35

\* Faktor 2: Rating-Problem, before the low-volume halving
RatingStepSwapped(rating) ==
    IF Truthy(rating)
    THEN IF rating[1] < 30 THEN 25
         ELSE IF rating[1] < 35 THEN 20
         ELSE IF rating[1] < 40 THEN 8
         ELSE IF rating[1] < 45 THEN 15
         ELSE 0
    ELSE 12

RatingStep(rating) ==
    IF Truthy(rating)
    THEN IF rating[1] < 30 THEN 25
         ELSE IF rating[1] < 35 THEN 20
         ELSE IF rating[1] < 40 THEN 15
         ELSE IF rating[1] < 45 THEN 8
         ELSE 0
    ELSE 12

\* int(f2 * 0.5) when review_count < 10; f2 is never negative
RatingFactor(rating, review_count) ==
    IF review_count < 10 THEN RatingStep(rating) \div 2 ELSE RatingStep(rating)

\* Faktor 3: Volumen
VolumeFactor(review_count) ==
    IF review_count >= 100 THEN 20
    ELSE IF review_count >= 31 THEN 15
    ELSE IF review_count >= 10 THEN 10
    ELSE IF review_count >= 5 THEN 5
    ELSE 0

\* Faktor 4: Aktualitaet
RecencyFactor(last_negative_days) ==
    IF last_negative_days <= 7 THEN 10
    ELSE IF last_negative_days <= 30 THEN 7
    ELSE IF last_negative_days <= 90 THEN 4
    ELSE 0

\* The binary64 product raw * factor lands above the exact product in one
\* case that is an exact tie: 55 * 1.1 evaluates to 60.50000000000001.
FloatProductAboveTie(raw, factor) == raw = 55 /\ factor = 110

\* round(raw_score * branch_factor): round-half-to-even of the float product
PyRoundTruncate(raw, factor) == (raw * factor) \div 100

PyRound(raw, factor) ==
    LET n == raw * factor
        q == n \div 100
        r == n % 100
    IN  IF r > 50 THEN q + 1
        ELSE IF r < 50 THEN q
        ELSE IF FloatProductAboveTie(raw, factor) THEN q + 1
        ELSE IF q % 2 = 1 THEN q + 1
        ELSE q

calculate_lead_score(rating, review_count, unanswered_pct, last_negative_days, b) ==
    LET f1 == ResponseFactor(unanswered_pct)
        f2 == RatingFactor(rating, review_count)
        f3 == VolumeFactor(review_count)
        f4 == RecencyFactor(last_negative_days)
        raw_score == f1 + f2 + f3 + f4
        branch_factor == BranchFactor(b)
        final_score == PyRound(raw_score, branch_factor)
    IN  [score |-> final_score,
         breakdown |-> [antwort |-> f1, rating |-> f2, volumen |-> f3,
                        aktualitaet |-> f4, raw |-> raw_score,
                        factor |-> branch_factor, final |-> final_score]]

(***************************************************************************)
(* get_pain_flags: the list of flags, in the order the code appends them   *)
(***************************************************************************)
get_pain_flags(rating, unanswered_pct, branch_factor, review_count) ==
    (IF Truthy(rating) /\ rating[1] < 40 THEN <<"reputation_risk">> ELSE <<>>)
    \o (IF FracGt(unanswered_pct, 50) THEN <<"response_problem">> ELSE <<>>)
    \o (IF branch_factor >= 120 THEN <<"high_value">> ELSE <<>>)
    \o (IF review_count >= 50 THEN <<"high_volume">> ELSE <<>>)

(***************************************************************************)
(* get_score_category                                                      *)
(***************************************************************************)
get_score_category_exclusive(score) ==
    IF score > 70 THEN <<"Hot", "score-hot">>
    ELSE IF score > 50 THEN <<"Warm", "score-warm">>
    ELSE IF score > 30 THEN <<"Cold", "score-cold">>
    ELSE <<"Low", "score-none">>

get_score_category(score) ==
    IF score >= 70 THEN <<"Hot", "score-hot">>
    ELSE IF score >= 50 THEN <<"Warm", "score-warm">>
    ELSE IF score >= 30 THEN <<"Cold", "score-cold">>
    ELSE <<"Low", "score-none">>

(***************************************************************************)
(* analyze_reviews_outscraper                                              *)
(*                                                                         *)
(* A review is [owner_response, response_text : BOOLEAN (truthy or not),   *)
(* review_rating : None or Some(1..5), review_datetime_utc, review_date :  *)
(* a timestamp field].  A timestamp field is [kind, wall]: kind "absent"   *)
(* (missing or empty), "malformed" (a string fromisoformat rejects) or     *)
(* "iso" (a string fromisoformat accepts, whose wall-clock reading is      *)
(* `wall` hours; the offset is dropped by replace(tzinfo=None)).           *)
(***************************************************************************)
\* last_negative_days before any negative review was seen
NoNegativeDays == 999

Absent == [kind |-> "absent", wall |-> 0]

Malformed == [kind |-> "malformed", wall |-> 0]

Iso(w) == [kind |-> "iso", wall |-> w]

\* review.get("owner_response") or review.get("response_text")
OwnerResponse(review) == review.owner_response \/ review.response_text

\* review.get("review_rating", 5)
ReviewRating(review) ==
    IF review.review_rating = None THEN 5 ELSE review.review_rating[1]

\* rating and rating <= 3
IsNegative(review) == ReviewRating(review) # 0 /\ ReviewRating(review) <= 3

\* review.get("review_datetime_utc") or review.get("review_date")
ReviewDateStr(review) ==
    IF review.review_datetime_utc.kind # "absent"
    THEN review.review_datetime_utc
    ELSE review.review_date

\* datetime.fromisoformat(...).replace(tzinfo=None): None stands for ValueError
FromIsoformat(ts) == IF ts.kind = "iso" THEN Some(ts.wall) ELSE None

\* (now - review_date).days
DaysAgo(now, wall) == (now - wall) \div 24

\* except: pass
ExceptReraise(acc) == [acc EXCEPT !.raised = TRUE]

ExceptPass(acc) == acc

\* if days_ago < last_negative_days: last_negative_days = days_ago
KeepMin(last, days_ago) == IF days_ago < last THEN days_ago ELSE last

\* one iteration of the loop over the reviews
AnalyzeReview(acc, review, now) ==
    LET a1 == IF OwnerResponse(review)
              THEN [acc EXCEPT !.answered = acc.answered + 1]
              ELSE acc
        ds == ReviewDateStr(review)
    IN  IF IsNegative(review) /\ ds.kind # "absent"
        THEN IF FromIsoformat(ds) = None
             THEN ExceptPass(a1)
             ELSE [a1 EXCEPT !.last_negative_days =
                      KeepMin(a1.last_negative_days,
                              DaysAgo(now, FromIsoformat(ds)[1]))]
        ELSE a1

RECURSIVE AnalyzeLoop(_, _, _, _)
AnalyzeLoop(acc, rs, k, now) ==
    IF k > Len(rs) \/ acc.raised THEN acc
    ELSE AnalyzeLoop(AnalyzeReview(acc, rs[k], now), rs, k + 1, now)

EmptySummaryZeroPct ==
    [raised |-> FALSE, total |-> 0, answered |-> 0, unanswered |-> 0,
     unanswered_pct |-> Frac(0, 1), last_negative_days |-> NoNegativeDays]

EmptySummary ==
    [raised |-> FALSE, total |-> 0, answered |-> 0, unanswered |-> 0,
     unanswered_pct |-> Frac(100, 1), last_negative_days |-> NoNegativeDays]

analyze_reviews_outscraper(rs, now) ==
    IF rs = <<>> THEN EmptySummary
    ELSE LET total == Len(rs)
             acc == AnalyzeLoop([raised |-> FALSE, answered |-> 0,
                                 last_negative_days |-> NoNegativeDays],
                                rs, 1, now)
             unanswered == total - acc.answered
         IN  [raised |-> acc.raised,
              total |-> total,
              answered |-> acc.answered,
              unanswered |-> unanswered,
              unanswered_pct |-> IF total > 0 THEN Frac(unanswered * 100, total)
                                 ELSE Frac(0, 1),
              last_negative_days |-> acc.last_negative_days]

(***************************************************************************)
(* Input domains                                                           *)
(***************************************************************************)
SeqsUpTo(S, n) == UNION {[1..k -> S] : k \in 0..n}

NowValues == {30000}

\* ages, in hours, of the timestamps tried: 0, 5, 999 and 1000 whole days
AgeHours == {10, 130, 23976, 24010}

TimestampPairs ==
    {<<u, Absent>> : u \in {Absent, Malformed} \cup {Iso(30000 - a) : a \in AgeHours}}
    \cup {<<Absent, Iso(30000 - 130)>>, <<Malformed, Iso(30000 - 130)>>}

ResponsePairs == {<<FALSE, FALSE>>, <<TRUE, FALSE>>, <<FALSE, TRUE>>}

ReviewRatings == {None, Some(3), Some(4)}

ReviewValues ==
    {[owner_response |-> rp[1], response_text |-> rp[2], review_rating |-> r,
      review_datetime_utc |-> tp[1], review_date |-> tp[2]] :
        rp \in ResponsePairs, r \in ReviewRatings, tp \in TimestampPairs}

NoCall == [fn |-> "none"]

NoRet == [fn |-> "none"]

LoopIdle ==
    /\ pc = "idle"
    /\ businesses = <<>>
    /\ branche = ""
    /\ idx = 0
    /\ reviews = <<>>
    /\ results = <<>>

(***************************************************************************)
(* SpecAnalyze: one call of analyze_reviews_outscraper                     *)
(***************************************************************************)
InitAnalyze ==
    /\ LoopIdle
    /\ args \in {[fn |-> "analyze", reviews |-> rs, now |-> n] :
                    rs \in SeqsUpTo(ReviewValues, MaxReviews), n \in NowValues}
    /\ ret = NoRet

CallAnalyze ==
    /\ args.fn = "analyze"
    /\ ret = NoRet
    /\ ret' = [fn |-> "analyze",
               summary |-> analyze_reviews_outscraper(args.reviews, args.now)]
    /\ UNCHANGED <<loopVars, args>>

NextAnalyze == CallAnalyze

SpecAnalyze == InitAnalyze /\ [][NextAnalyze]_vars

(***************************************************************************)
(* SpecCategory: one call of get_score_category                            *)
(***************************************************************************)
InitCategory ==
    /\ LoopIdle
    /\ args \in {[fn |-> "category", score |-> s] : s \in 0..MaxScore}
    /\ ret = NoRet

CallCategory ==
    /\ args.fn = "category"
    /\ ret = NoRet
    /\ ret' = [fn |-> "category", category |-> get_score_category(args.score)]
    /\ UNCHANGED <<loopVars, args>>

NextCategory == CallCategory

SpecCategory == InitCategory /\ [][NextCategory]_vars

(***************************************************************************)
(* SpecScore: one call of calculate_lead_score                             *)
(***************************************************************************)
\* every rating from 0.0 to 5.0 in steps of 0.1, or none
ScoreRatings == {None} \cup {Some(r) : r \in 0..50}

ScoreCounts == {0, 4, 5, 9, 10, 30, 31, 49, 50, 99, 100}

ScorePcts ==
    {Frac(0, 1), Frac(1, 3), Frac(25, 1), Frac(76, 3), Frac(50, 1),
     Frac(151, 3), Frac(75, 1), Frac(226, 3), Frac(100, 1)}

ScoreDays == {0, 7, 8, 30, 31, 90, 91, NoNegativeDays}

Branches == DOMAIN BRANCH_FACTORS \cup {"Baeckerei"}

InitScore ==
    /\ LoopIdle
    /\ args \in {[fn |-> "score", rating |-> r, review_count |-> c,
                  unanswered_pct |-> p, last_negative_days |-> d,
                  branche |-> b] :
                    r \in ScoreRatings, c \in ScoreCounts, p \in ScorePcts,
                    d \in ScoreDays, b \in Branches}
    /\ ret = NoRet

CallScore ==
    /\ args.fn = "score"
    /\ ret = NoRet
    /\ ret' = LET r == calculate_lead_score(args.rating, args.review_count,
                                            args.unanswered_pct,
                                            args.last_negative_days,
                                            args.branche)
              IN  [fn |-> "score", score |-> r.score, breakdown |-> r.breakdown]
    /\ UNCHANGED <<loopVars, args>>

NextScore == CallScore

SpecScore == InitScore /\ [][NextScore]_vars

(***************************************************************************)
(* SpecFlags: one call of get_pain_flags                                   *)
(***************************************************************************)
FlagRatings == {None} \cup {Some(r) : r \in {0, 10, 39, 40, 50}}

FlagPcts == {Frac(0, 1), Frac(50, 1), Frac(151, 3), Frac(100, 1)}

FlagFactors == {80, 100, 119, 120, 125, 130}

FlagCounts == {0, 49, 50, 100}

InitFlags ==
    /\ LoopIdle
    /\ args \in {[fn |-> "flags", rating |-> r, unanswered_pct |-> p,
                  branch_factor |-> f, review_count |-> c] :
                    r \in FlagRatings, p \in FlagPcts, f \in FlagFactors,
                    c \in FlagCounts}
    /\ ret = NoRet

CallFlags ==
    /\ args.fn = "flags"
    /\ ret = NoRet
    /\ ret' = [fn |-> "flags",
               flags |-> get_pain_flags(args.rating, args.unanswered_pct,
                                        args.branch_factor, args.review_count)]
    /\ UNCHANGED <<loopVars, args>>

NextFlags == CallFlags

SpecFlags == InitFlags /\ [][NextFlags]_vars

(***************************************************************************)
(* Spec: one report run, the loop over the businesses found                *)
(*                                                                         *)
(* A business is [name, place_id, keys, rating, reviews, reviews_count]:    *)
(* keys is the set of those of "rating", "reviews" and "reviews_count"     *)
(* that the dict holds; the field of a key it holds is None for null; the  *)
(* field of a key it does not hold is None and is never read.              *)
(* pc "loop" is the head of the                                            *)
(* for statement with idx businesses done, "fetching" is the reviews       *)
(* request in flight, "fetched" is the point after the if statement.       *)
(* analysis, breakdown and pain_flags are the script's variables of the    *)
(* same names and keep the values of the last iteration.                   *)
(***************************************************************************)
\* the shapes of the rating entry: missing, 3.8, 4.6
RatingEntries ==
    {[keys |-> {}, rating |-> None]}
    \cup {[keys |-> {"rating"}, rating |-> Some(r)] : r \in {38, 46}}

\* the shapes of the review count entries: both missing, reviews null, 0 or
\* 12, and reviews missing with reviews_count 12
CountEntries ==
    {[keys |-> {}, reviews |-> None, reviews_count |-> None],
     [keys |-> {"reviews_count"}, reviews |-> None, reviews_count |-> Some(12)]}
    \cup {[keys |-> {"reviews"}, reviews |-> c, reviews_count |-> None] :
              c \in {None, Some(0), Some(12)}}

BusinessValues ==
    {[name |-> n, place_id |-> p, keys |-> r.keys \cup c.keys,
      rating |-> r.rating, reviews |-> c.reviews,
      reviews_count |-> c.reviews_count] :
        n \in {"A", "B"}, p \in {"", "ChIJ"}, r \in RatingEntries,
        c \in CountEntries}

RunBranches == {"Zahnarzt", "Friseur"}

\* review lists a successful request can deliver
FetchedReviews ==
    LET r(o, g, t) == [owner_response |-> o, response_text |-> FALSE,
                       review_rating |-> g, review_datetime_utc |-> t,
                       review_date |-> Absent]
    IN  {<<>>,
         <<r(TRUE, Some(5), Iso(29990))>>,
         <<r(FALSE, Some(2), Iso(29870)), r(TRUE, Some(1), Malformed)>>}

\* business.get(key, default)
Get(b, key, default) == IF key \in b.keys THEN b[key] ELSE default

\* business.get("rating", 0)
BusinessRating(b) == Get(b, "rating", Some(0))

\* business.get("reviews", business.get("reviews_count", 0))
ReviewCount(b) == Get(b, "reviews", Get(b, "reviews_count", Some(0)))

\* review_count or 0
ReviewCountOrZero(b) ==
    IF Truthy(ReviewCount(b)) THEN ReviewCount(b)[1] ELSE 0

\* if place_id and review_count and review_count > 0
ShouldFetchAnyCount(b) == b.place_id # ""

ShouldFetch(b) ==
    b.place_id # "" /\ Truthy(ReviewCount(b)) /\ ReviewCount(b)[1] > 0

\* what get_reviews_outscraper returns when the request fails
ReviewsOnFailure == <<>>

\* The binary64 value of unanswered / total * 100 misses an exact half m / 2
\* (m odd) for eight values of m: it lies above for 3.5, 27.5, 54.5 and 55.5
\* and below for 14.5, 28.5, 56.5 and 57.5 (23 of 40 gives 57.49999999999999).
\* The quotient is correctly rounded, so this depends on the value of the
\* fraction only, not on total.
FloatPctAboveHalf == {7, 55, 109, 111}

FloatPctBelowHalf == {29, 57, 113, 115}

\* f"{unanswered_pct:.0f}": round-half-to-even of the binary64 value
FormatPct0(p) ==
    LET q == p.num \div p.den
        r2 == 2 * (p.num % p.den)
        m == 2 * q + 1
    IN  IF r2 > p.den THEN q + 1
        ELSE IF r2 < p.den THEN q
        ELSE IF m \in FloatPctAboveHalf THEN q + 1
        ELSE IF m \in FloatPctBelowHalf THEN q
        ELSE IF q % 2 = 1 THEN q + 1
        ELSE q

Init ==
    /\ pc = "idle"
    /\ businesses = <<>>
    /\ branche = ""
    /\ idx = 0
    /\ reviews = <<>>
    /\ results = <<>>
    /\ args = NoCall
    /\ ret = NoRet

\* the button handler up to the loop: search, then results = []
SearchBusinesses ==
    /\ pc = "idle"
    /\ \E bs \in SeqsUpTo(BusinessValues, MaxBusinesses), b \in RunBranches :
          /\ businesses' = bs
          /\ branche' = b
          /\ pc' = IF bs = <<>> THEN "no_results" ELSE "loop"
    /\ results' = <<>>
    /\ idx' = 0
    /\ UNCHANGED <<reviews, args, ret>>

\* head of an iteration: reviews = [] and the decision to fetch
StartIteration ==
    /\ pc = "loop"
    /\ reviews' = <<>>
    /\ pc' = IF ShouldFetch(businesses[idx + 1]) THEN "fetching" ELSE "fetched"
    /\ UNCHANGED <<businesses, branche, idx, results, args, ret>>

\* get_reviews_outscraper returns the reviews_data of the response
FetchOk ==
    /\ pc = "fetching"
    /\ \E rs \in FetchedReviews : reviews' = rs
    /\ pc' = "fetched"
    /\ UNCHANGED <<businesses, branche, idx, results, args, ret>>

\* the request of get_reviews_outscraper raises (timeout, HTTP error, bad JSON)
FetchRaises ==
    /\ pc = "fetching"
    /\ pc' = "fetch_raised"
    /\ UNCHANGED <<businesses, branche, idx, reviews, results, args, ret>>

\* the bare except of get_reviews_outscraper: return []
FetchExcept ==
    /\ pc = "fetch_raised"
    /\ reviews' = ReviewsOnFailure
    /\ pc' = "fetched"
    /\ UNCHANGED <<businesses, branche, idx, results, args, ret>>

\* the rest of the iteration: analyse, score, flag, categorise, append
ProcessBusiness ==
    /\ pc = "fetched"
    /\ \E now \in NowValues :
        LET business == businesses[idx + 1]
            rating == BusinessRating(business)
            review_count == ReviewCountOrZero(business)
            analysis == analyze_reviews_outscraper(reviews, now)
            sc == calculate_lead_score(rating, review_count,
                                       analysis.unanswered_pct,
                                       analysis.last_negative_days, branche)
            pain_flags == get_pain_flags(rating, analysis.unanswered_pct,
                                         sc.breakdown.factor, review_count)
            category == get_score_category(sc.score)[1]
            row == [Name |-> business.name,
                    Rating |-> IF Truthy(rating) THEN rating ELSE None,
                    Reviews |-> review_count,
                    Beantwortet |-> <<analysis.answered, analysis.total>>,
                    UnbeantwortetPct |-> FormatPct0(analysis.unanswered_pct),
                    LeadScore |-> sc.score,
                    Kategorie |-> category,
                    Flags |-> pain_flags]
        IN  /\ results' = Append(results, row)
            /\ ret' = [fn |-> "iteration", analysis |-> analysis,
                       breakdown |-> sc.breakdown, pain_flags |-> pain_flags]
    /\ idx' = idx + 1
    /\ pc' = IF idx + 1 = Len(businesses) THEN "done" ELSE "loop"
    /\ UNCHANGED <<businesses, branche, reviews, args>>

Next ==
    \/ SearchBusinesses
    \/ StartIteration
    \/ FetchOk
    \/ FetchRaises
    \/ FetchExcept
    \/ ProcessBusiness

Spec == Init /\ [][Next]_vars

(***************************************************************************)
(* Properties                                                              *)
(***************************************************************************)
Range(f) == {f[k] : k \in DOMAIN f}

Min(S) == CHOOSE m \in S : \A x \in S : m <= x

\* C1: the summary of every review sequence has answered + unanswered =
\* total, 0 <= answered <= total and 0 <= unanswered_pct <= 100; a non-empty
\* sequence has total = its length and unanswered_pct = (total - answered) /
\* total * 100; the empty sequence has total 0, answered 0, unanswered_pct 100.
C1_SummaryCounts ==
    ret.fn = "analyze" =>
        LET s == ret.summary
            rs == args.reviews
        IN  /\ s.answered + s.unanswered = s.total
            /\ 0 <= s.answered /\ s.answered <= s.total
            /\ s.unanswered_pct.den > 0
            /\ 0 <= s.unanswered_pct.num /\ FracLe(s.unanswered_pct, 100)
            /\ rs # <<>> =>
                  /\ s.total = Len(rs)
                  /\ s.unanswered_pct.num * s.total
                        = (s.total - s.answered) * 100 * s.unanswered_pct.den
            /\ rs = <<>> =>
                  /\ s.total = 0
                  /\ s.answered = 0
                  /\ FracEq(s.unanswered_pct, 100)

C1_Witness ==
    /\ ret.fn = "analyze"
    /\ Len(args.reviews) = 2
    /\ ret.summary.answered = 1
    /\ FracEq(ret.summary.unanswered_pct, 50)

\* the elapsed whole days of the reviews whose rating is present and <= 3 and
\* whose timestamp parses
NegativeDays(rs, now) ==
    {DaysAgo(now, ReviewDateStr(rs[k]).wall) :
        k \in {j \in 1..Len(rs) : /\ rs[j].review_rating # None
                                  /\ rs[j].review_rating[1] <= 3
                                  /\ ReviewDateStr(rs[j]).kind = "iso"}}

\* C2: last_negative_days is the minimum elapsed whole days over the negative
\* reviews with a usable timestamp, an integer >= 0 that differs from the
\* "unknown" value; without such a review it is the "unknown" value.
C2_DaysSinceLastNegative ==
    ret.fn = "analyze" =>
        LET D == NegativeDays(args.reviews, args.now)
            d == ret.summary.last_negative_days
        IN  IF D = {}
            THEN d = NoNegativeDays
            ELSE d = Min(D) /\ d >= 0 /\ d # NoNegativeDays

\* the reviews with every unparseable timestamp taken away
WithoutMalformed(rs) ==
    [k \in 1..Len(rs) |->
        IF ReviewDateStr(rs[k]).kind = "malformed"
        THEN [rs[k] EXCEPT !.review_datetime_utc = Absent, !.review_date = Absent]
        ELSE rs[k]]

\* C3: a review with an unparseable timestamp does not abort the analysis; it
\* is counted in total and, when answered, in answered, and the summary is
\* the one the same reviews give when that review carries no timestamp.
C3_MalformedTimestampSkipped ==
    ret.fn = "analyze" =>
        LET s == ret.summary
            rs == args.reviews
        IN  /\ ~s.raised
            /\ s.total = Len(rs)
            /\ s.answered = Cardinality({k \in 1..Len(rs) :
                                rs[k].owner_response \/ rs[k].response_text})
            /\ s = analyze_reviews_outscraper(WithoutMalformed(rs), args.now)

C3_Witness ==
    /\ ret.fn = "analyze"
    /\ Len(args.reviews) = 2
    /\ args.reviews[1].review_rating = Some(3)
    /\ args.reviews[1].review_datetime_utc = Malformed
    /\ args.reviews[1].owner_response
    /\ args.reviews[2].review_rating = Some(3)
    /\ args.reviews[2].review_datetime_utc.kind = "iso"
    /\ ret.summary.last_negative_days = 5
    /\ ret.summary.answered >= 1

\* the step functions as the specification states them; a rating is present
\* when it is not None
StatedResponse(p) ==
    IF FracEq(p, 0) THEN 0
    ELSE IF FracLe(p, 25) THEN 10
    ELSE IF FracLe(p, 50) THEN 20
    ELSE IF FracLe(p, 75) THEN 28
    ELSE 35

StatedRating(rating, review_count) ==
    LET f == IF rating = None THEN 12
             ELSE IF rating[1] < 30 THEN 25
             ELSE IF rating[1] < 35 THEN 20
             ELSE IF rating[1] < 40 THEN 15
             ELSE IF rating[1] < 45 THEN 8
             ELSE 0
    IN  IF review_count < 10 THEN f \div 2 ELSE f

StatedVolume(c) ==
    IF c >= 100 THEN 20
    ELSE IF c >= 31 THEN 15
    ELSE IF c >= 10 THEN 10
    ELSE IF c >= 5 THEN 5
    ELSE 0

StatedRecency(d) ==
    IF d = NoNegativeDays THEN 0
    ELSE IF d <= 7 THEN 10
    ELSE IF d <= 30 THEN 7
    ELSE IF d <= 90 THEN 4
    ELSE 0

\* C4: the four factors of the breakdown are the stated step functions of
\* unanswered_pct, rating (12 only for an absent rating, halved below 10
\* reviews), review_count and last_negative_days.
C4_FactorsAsStated ==
    ret.fn = "score" =>
        /\ ret.breakdown.antwort = StatedResponse(args.unanswered_pct)
        /\ ret.breakdown.rating = StatedRating(args.rating, args.review_count)
        /\ ret.breakdown.volumen = StatedVolume(args.review_count)
        /\ ret.breakdown.aktualitaet = StatedRecency(args.last_negative_days)

\* C5: raw is the sum of the four factors and lies in 0..90, factor is the
\* table entry of the branch or 1.0, final is raw * factor rounded to a
\* nearest integer (80 * 1.3 gives 104, 35 * 0.8 gives 28), and the score
\* returned is final.
C5_FinalScore ==
    ret.fn = "score" =>
        LET b == ret.breakdown
        IN  /\ b.raw = b.antwort + b.rating + b.volumen + b.aktualitaet
            /\ 0 <= b.raw /\ b.raw <= 90
            /\ b.factor = IF args.branche \in DOMAIN BRANCH_FACTORS
                          THEN BRANCH_FACTORS[args.branche] ELSE 100
            /\ 100 * b.final - b.raw * b.factor \in -50..50
            /\ (b.raw = 80 /\ b.factor = 130) => b.final = 104
            /\ (b.raw = 35 /\ b.factor = 80) => b.final = 28
            /\ ret.score = b.final

C5_Witness ==
    /\ ret.fn = "score"
    /\ args.branche = "Zahnarzt"
    /\ ret.breakdown.raw = 80
    /\ ret.score = 104

\* C6: score >= 70 is Hot, 50..69 Warm, 30..49 Cold, below 30 Low, and the
\* category never falls when the score rises.
CategoryRank(c) ==
    CASE c = "Hot" -> 3 [] c = "Warm" -> 2 [] c = "Cold" -> 1 [] c = "Low" -> 0

C6_CategoryBands ==
    ret.fn = "category" =>
        LET s == args.score
            c == ret.category[1]
        IN  /\ c \in {"Hot", "Warm", "Cold", "Low"}
            /\ c = "Hot" <=> s >= 70
            /\ c = "Warm" <=> (50 <= s /\ s < 70)
            /\ c = "Cold" <=> (30 <= s /\ s < 50)
            /\ c = "Low" <=> s < 30
            /\ \A t \in 0..MaxScore :
                  t >= s => CategoryRank(get_score_category(t)[1]) >= CategoryRank(c)

C6_Witness ==
    /\ ret.fn = "category"
    /\ args.score = 70
    /\ ret.category[1] = "Hot"

\* C7: the flags returned are exactly those whose condition holds:
\* reputation_risk iff the rating is present and < 4.0, response_problem iff
\* unanswered_pct > 50, high_value iff the factor >= 1.2, high_volume iff
\* review_count >= 50.
C7_FlagsAsStated ==
    ret.fn = "flags" =>
        /\ Len(ret.flags) = Cardinality(Range(ret.flags))
        /\ Range(ret.flags) =
              {f \in {"reputation_risk", "response_problem", "high_value",
                      "high_volume"} :
                  \/ f = "reputation_risk" /\ args.rating # None
                                           /\ args.rating[1] < 40
                  \/ f = "response_problem" /\ FracGt(args.unanswered_pct, 50)
                  \/ f = "high_value" /\ args.branch_factor >= 120
                  \/ f = "high_volume" /\ args.review_count >= 50}

ScoreWith(a) ==
    calculate_lead_score(a.rating, a.review_count, a.unanswered_pct,
                         a.last_negative_days, a.branche).score

\* C8: with the other inputs fixed, a larger unanswered_pct never gives a
\* smaller final score.
C8_MonotoneInUnanswered ==
    ret.fn = "score" =>
        \A p2 \in ScorePcts :
            FracLeq(args.unanswered_pct, p2) =>
                ret.score <= ScoreWith([args EXCEPT !.unanswered_pct = p2])

C8_Witness ==
    /\ ret.fn = "score"
    /\ FracEq(args.unanswered_pct, 75)
    /\ ret.breakdown.antwort = 28
    /\ ret.score < ScoreWith([args EXCEPT !.unanswered_pct = Frac(100, 1)])

\* C9: with the other inputs fixed, a larger rating never gives a larger
\* final score, for ratings from 3.0 to 5.0, also below 10 reviews.
C9_MonotoneInRating ==
    ret.fn = "score" /\ args.rating # None /\ args.rating[1] >= 30 =>
        \A r2 \in args.rating[1]..50 :
            ret.score >= ScoreWith([args EXCEPT !.rating = Some(r2)])

C9_Witness ==
    /\ ret.fn = "score"
    /\ args.rating = Some(39)
    /\ args.review_count = 9
    /\ ret.breakdown.rating = 7
    /\ ret.score > ScoreWith([args EXCEPT !.rating = Some(40)])

\* what holds in every state of a report run
C10_StateInv ==
    /\ idx <= Len(businesses)
    /\ Len(results) = idx
    /\ \A k \in 1..Len(results) : results[k].Name = businesses[k].name
    /\ pc = "done" => Len(results) = Len(businesses)
    /\ pc \in {"fetching", "fetch_raised"} =>
          LET b == businesses[idx + 1]
              c == IF "reviews" \in b.keys THEN b.reviews
                   ELSE IF "reviews_count" \in b.keys THEN b.reviews_count
                   ELSE Some(0)
          IN  /\ b.place_id # ""
              /\ c # None
              /\ c[1] > 0
    /\ (ret.fn = "iteration" /\ pc \in {"loop", "done"} /\ reviews = <<>>) =>
          /\ ret.analysis.total = 0
          /\ FracEq(ret.analysis.unanswered_pct, 100)
          /\ ret.analysis.last_negative_days = NoNegativeDays
          /\ ret.breakdown.antwort = 35
          /\ ret.breakdown.aktualitaet = 0
          /\ "response_problem" \in Range(ret.pain_flags)
          /\ results[idx].Flags = ret.pain_flags
          /\ results[idx].Beantwortet = <<0, 0>>
          /\ results[idx].LeadScore = ret.breakdown.final

\* C10: the loop handles the businesses in order and ends with one row per
\* business; reviews are requested only for a business with a place_id and a
\* positive review count; a request that fails gives the empty review list
\* and the loop goes on; a business with no reviews is scored from the empty
\* summary (factor 35 for the response, 0 for recency, response_problem set).
C10_OneRowPerBusiness ==
    /\ []C10_StateInv
    /\ [][pc = "fetch_raised" => (pc' = "fetched" /\ reviews' = <<>>)]_vars

C10_Witness ==
    /\ pc = "done"
    /\ Len(businesses) = 2
    /\ ShouldFetch(businesses[1])
    /\ results[1].Beantwortet = <<0, 0>>
    /\ results[2].Beantwortet = <<1, 2>>
    /\ results[1].Name = "B"
    /\ results[2].Name = "A"
    /\ "reviews" \notin businesses[2].keys
    /\ results[2].Reviews = 12

====
